---------------------------- MODULE Spec2Model ----------------------------
(***************************************************************************)
(* A model of "Source tool/main.js": the header canonicalizer              *)
(* (getMasterKey), the row mapper and merge engine (normalizeData), the    *)
(* condensed projector (generateCondensedData) and the page that drives    *)
(* them (handleFiles, processFiles, exportAllHeaders).                     *)
(*                                                                         *)
(* A JavaScript string is a sequence of one-character strings, so that     *)
(* trim, toLowerCase and toUpperCase are computed and not assumed.  A      *)
(* JavaScript object is a sequence of [k, v] entries in insertion order,   *)
(* which is the order Object.keys enumerates.  Objects live in a heap and  *)
(* are named by their address, so that in-place mutation is visible.       *)
(***************************************************************************)
EXTENDS Integers, Sequences, FiniteSets, Bags, TLC

(***************************************************************************)
(* Bounds of the model.                                                    *)
(***************************************************************************)
\* the longest input array of normalizeData that is enumerated
MaxRecords == 3

(***************************************************************************)
(* JavaScript values: strings, numbers and undefined.                      *)
(***************************************************************************)
Str(s) == [t |-> "string", s |-> s]

Num(n) == [t |-> "number", n |-> n]

undefined == [t |-> "undefined"]

null == [t |-> "null"]

EmptyString == Str(<<>>)

\* the characters String.prototype.trim removes that occur in the inputs
WhiteSpace == {" ", "\t", "\n"}

UpperLetters ==
  <<"A","B","C","D","E","F","G","H","I","J","K","L","M",
    "N","O","P","Q","R","S","T","U","V","W","X","Y","Z">>

LowerLetters ==
  <<"a","b","c","d","e","f","g","h","i","j","k","l","m",
    "n","o","p","q","r","s","t","u","v","w","x","y","z">>

Digits == <<"0","1","2","3","4","5","6","7","8","9">>

IndexIn(c, letters) == CHOOSE j \in 1..Len(letters) : letters[j] = c

\* the lower-case letter of each upper-case letter
lowerOf ==
  [c \in {UpperLetters[j] : j \in 1..Len(UpperLetters)} |->
     LowerLetters[IndexIn(c, UpperLetters)]]

\* the upper-case letter of each lower-case letter
upperOf ==
  [c \in {LowerLetters[j] : j \in 1..Len(LowerLetters)} |->
     UpperLetters[IndexIn(c, LowerLetters)]]

\* String.prototype.toLowerCase, character by character
toLowerCase(s) ==
  [j \in 1..Len(s) |-> IF s[j] \in DOMAIN lowerOf THEN lowerOf[s[j]] ELSE s[j]]

\* String.prototype.toUpperCase, character by character
toUpperCase(s) ==
  [j \in 1..Len(s) |-> IF s[j] \in DOMAIN upperOf THEN upperOf[s[j]] ELSE s[j]]

\* String.prototype.trim: drop the leading and trailing white space
trim(s) ==
  LET kept == {j \in 1..Len(s) : s[j] \notin WhiteSpace}
  IN  IF kept = {}
      THEN <<>>
      ELSE LET first == CHOOSE j \in kept : \A l \in kept : j <= l
               last  == CHOOSE j \in kept : \A l \in kept : l <= j
           IN  SubSeq(s, first, last)

RECURSIVE DecimalDigits(_)
\* the decimal digits of a natural number
DecimalDigits(n) ==
  IF n < 10
  THEN <<Digits[n + 1]>>
  ELSE Append(DecimalDigits(n \div 10), Digits[(n % 10) + 1])

\* String(value), to a sequence of characters
String(value) ==
  CASE value.t = "string"    -> value.s
    [] value.t = "number"    -> DecimalDigits(value.n)
    [] value.t = "null"      -> <<"n","u","l","l">>
    [] OTHER                 -> <<"u","n","d","e","f","i","n","e","d">>

\* the values JavaScript treats as false in !value and value || other
Falsy(value) ==
  \/ value.t = "undefined"
  \/ value.t = "null"
  \/ value.t = "string" /\ value.s = <<>>
  \/ value.t = "number" /\ value.n = 0

(***************************************************************************)
(* JavaScript objects: [k, v] entries in insertion order, keys unique.     *)
(***************************************************************************)
Keys(obj) == [j \in 1..Len(obj) |-> obj[j].k]

Has(obj, key) == \E j \in 1..Len(obj) : obj[j].k = key

\* obj[key]
Get(obj, key) ==
  IF Has(obj, key)
  THEN obj[CHOOSE j \in 1..Len(obj) : obj[j].k = key].v
  ELSE undefined

\* obj[key] = value: an existing key keeps its place, a new key goes last
Set(obj, key, value) ==
  IF Has(obj, key)
  THEN [j \in 1..Len(obj) |->
          IF obj[j].k = key THEN [k |-> key, v |-> value] ELSE obj[j]]
  ELSE Append(obj, [k |-> key, v |-> value])

(***************************************************************************)
(* The rows the model feeds to normalizeData, as XLSX.utils.sheet_to_json  *)
(* (line 217) yields them: header to cell value, a blank cell being "".    *)
(***************************************************************************)
Entry(key, value) == [k |-> key, v |-> value]

\* {MPN: "X1", Manufacturer: "Acme", Price: ""}
RowX1Acme ==
  <<Entry(<<"M","P","N">>, Str(<<"X","1">>)),
    Entry(<<"M","a","n","u","f","a","c","t","u","r","e","r">>, Str(<<"A","c","m","e">>)),
    Entry(<<"P","r","i","c","e">>, Str(<<>>))>>

\* {MPN: "x1", Manufacturer: "", Price: "1.00"}
RowX1Price ==
  <<Entry(<<"M","P","N">>, Str(<<"x","1">>)),
    Entry(<<"M","a","n","u","f","a","c","t","u","r","e","r">>, Str(<<>>)),
    Entry(<<"P","r","i","c","e">>, Str(<<"1",".","0","0">>))>>

\* {"Part Number": " x1 ", Manufacturer: "Bolt", "Unit Price(USD)": 0}
RowX1Bolt ==
  <<Entry(<<"P","a","r","t"," ","N","u","m","b","e","r">>, Str(<<" ","x","1"," ">>)),
    Entry(<<"M","a","n","u","f","a","c","t","u","r","e","r">>, Str(<<"B","o","l","t">>)),
    Entry(<<"U","n","i","t"," ","P","r","i","c","e","(","U","S","D",")">>, Num(0))>>

\* {MPN: "  ", "Mfr.": "Acme"}
RowBlankMpn ==
  <<Entry(<<"M","P","N">>, Str(<<" "," ">>)),
    Entry(<<"M","f","r",".">>, Str(<<"A","c","m","e">>))>>

\* {MPN: "", Price: "2.50"}
RowEmptyMpn ==
  <<Entry(<<"M","P","N">>, Str(<<>>)),
    Entry(<<"P","r","i","c","e">>, Str(<<"2",".","5","0">>))>>

\* {Description: "cap", "Stock Status": "In"}
RowNoMpn ==
  <<Entry(<<"D","e","s","c","r","i","p","t","i","o","n">>, Str(<<"c","a","p">>)),
    Entry(<<"S","t","o","c","k"," ","S","t","a","t","u","s">>, Str(<<"I","n">>))>>

\* {"mpn ": 7, Availability: 5, Price: ""}
RowSeven ==
  <<Entry(<<"m","p","n"," ">>, Num(7)),
    Entry(<<"A","v","a","i","l","a","b","i","l","i","t","y">>, Num(5)),
    Entry(<<"P","r","i","c","e">>, Str(<<>>))>>

\* {MPN: "X1", "Part Number": "7", "Mfr.": ""}: two headers of one field
RowTwoMpn ==
  <<Entry(<<"M","P","N">>, Str(<<"X","1">>)),
    Entry(<<"P","a","r","t"," ","N","u","m","b","e","r">>, Str(<<"7">>)),
    Entry(<<"M","f","r",".">>, Str(<<>>))>>

\* {MPN: 0}: a numeric cell that holds zero
RowZeroMpn == <<Entry(<<"M","P","N">>, Num(0))>>

RawRecords ==
  {RowX1Acme, RowX1Price, RowX1Bolt, RowBlankMpn, RowEmptyMpn, RowNoMpn,
   RowSeven, RowTwoMpn, RowZeroMpn}

(***************************************************************************)
(* The alias table of normalizeData (lines 241-254), in declaration order. *)
(***************************************************************************)
mapping ==
  <<
    \* 'MPN': ['Mfr Part Number', 'BOM: Matched MPN', 'Mrf#', 'MPN', 'Part Number', 'LCSC#']
    [master |-> <<"M","P","N">>,
     candidates |-> <<
       <<"M","f","r"," ","P","a","r","t"," ","N","u","m","b","e","r">>,
       <<"B","O","M",":"," ","M","a","t","c","h","e","d"," ","M","P","N">>,
       <<"M","r","f","#">>,
       <<"M","P","N">>,
       <<"P","a","r","t"," ","N","u","m","b","e","r">>,
       <<"L","C","S","C","#">>
     >>],
    \* 'Manufacturer': ['Manufacturer Name', 'BOM: Manufacturer Name', 'Mfr.']
    [master |-> <<"M","a","n","u","f","a","c","t","u","r","e","r">>,
     candidates |-> <<
       <<"M","a","n","u","f","a","c","t","u","r","e","r"," ","N","a","m","e">>,
       <<"B","O","M",":"," ","M","a","n","u","f","a","c","t","u","r","e","r"," ","N","a","m","e">>,
       <<"M","f","r",".">>
     >>],
    \* 'Description': ['Description', 'BOM: Description']
    [master |-> <<"D","e","s","c","r","i","p","t","i","o","n">>,
     candidates |-> <<
       <<"D","e","s","c","r","i","p","t","i","o","n">>,
       <<"B","O","M",":"," ","D","e","s","c","r","i","p","t","i","o","n">>
     >>],
    \* 'Required Qty': ['Quantity 1', 'BOM: Requested Qty', 'Quantity']
    [master |-> <<"R","e","q","u","i","r","e","d"," ","Q","t","y">>,
     candidates |-> <<
       <<"Q","u","a","n","t","i","t","y"," ","1">>,
       <<"B","O","M",":"," ","R","e","q","u","e","s","t","e","d"," ","Q","t","y">>,
       <<"Q","u","a","n","t","i","t","y">>
     >>],
    \* 'Unit Price': ['Unit Price 1 (EUR)', 'BOM: Unit Price($)', 'Unit Price(USD)']
    [master |-> <<"U","n","i","t"," ","P","r","i","c","e">>,
     candidates |-> <<
       <<"U","n","i","t"," ","P","r","i","c","e"," ","1"," ","(","E","U","R",")">>,
       <<"B","O","M",":"," ","U","n","i","t"," ","P","r","i","c","e","(","$",")">>,
       <<"U","n","i","t"," ","P","r","i","c","e","(","U","S","D",")">>
     >>],
    \* 'Total Price': ['Order Unit Price (EUR)', 'BOM: Total Line Price($)', 'Ext.Price(USD)']
    [master |-> <<"T","o","t","a","l"," ","P","r","i","c","e">>,
     candidates |-> <<
       <<"O","r","d","e","r"," ","U","n","i","t"," ","P","r","i","c","e"," ","(","E","U","R",")">>,
       <<"B","O","M",":"," ","T","o","t","a","l"," ","L","i","n","e"," ","P","r","i","c","e","(","$",")">>,
       <<"E","x","t",".","P","r","i","c","e","(","U","S","D",")">>
     >>],
    \* 'Stock Status': ['Availability', 'BOM: Stock Status', 'Stock Status']
    [master |-> <<"S","t","o","c","k"," ","S","t","a","t","u","s">>,
     candidates |-> <<
       <<"A","v","a","i","l","a","b","i","l","i","t","y">>,
       <<"B","O","M",":"," ","S","t","o","c","k"," ","S","t","a","t","u","s">>,
       <<"S","t","o","c","k"," ","S","t","a","t","u","s">>
     >>],
    \* 'Quantity Avail.': ['BOM: Stock Availability', 'Availability']
    [master |-> <<"Q","u","a","n","t","i","t","y"," ","A","v","a","i","l",".">>,
     candidates |-> <<
       <<"B","O","M",":"," ","S","t","o","c","k"," ","A","v","a","i","l","a","b","i","l","i","t","y">>,
       <<"A","v","a","i","l","a","b","i","l","i","t","y">>
     >>],
    \* 'Lead Time': ['Lead Time in Days', 'BOM: Mfg Lead Time (weeks)', 'Target Lead Time']
    [master |-> <<"L","e","a","d"," ","T","i","m","e">>,
     candidates |-> <<
       <<"L","e","a","d"," ","T","i","m","e"," ","i","n"," ","D","a","y","s">>,
       <<"B","O","M",":"," ","M","f","g"," ","L","e","a","d"," ","T","i","m","e"," ","(","w","e","e","k","s",")">>,
       <<"T","a","r","g","e","t"," ","L","e","a","d"," ","T","i","m","e">>
     >>],
    \* 'Min/Mult (MOQ)': ['Min./Mult.', 'Min / Mult']
    [master |-> <<"M","i","n","/","M","u","l","t"," ","(","M","O","Q",")">>,
     candidates |-> <<
       <<"M","i","n",".","/","M","u","l","t",".">>,
       <<"M","i","n"," ","/"," ","M","u","l","t">>
     >>],
    \* 'Datasheet': ['Datasheet URL']
    [master |-> <<"D","a","t","a","s","h","e","e","t">>,
     candidates |-> <<
       <<"D","a","t","a","s","h","e","e","t"," ","U","R","L">>
     >>],
    \* 'Product Link': ['Product Link']
    [master |-> <<"P","r","o","d","u","c","t"," ","L","i","n","k">>,
     candidates |-> <<
       <<"P","r","o","d","u","c","t"," ","L","i","n","k">>
     >>]
  >>

\* the canonical field that holds the identity, 'MPN' (line 285)
MPN == <<"M","P","N">>

\* c.toLowerCase().trim() of every alias of the table (line 260)
cleanCandidates ==
  [j \in 1..Len(mapping) |->
     [c \in 1..Len(mapping[j].candidates) |->
        trim(toLowerCase(mapping[j].candidates[c]))]]

\* candidates.some(c => c.toLowerCase().trim() === cleanHeader) (line 260),
\* for the candidates of the j-th field
someCandidate(j, cleanHeader) ==
  \E c \in 1..Len(cleanCandidates[j]) : cleanCandidates[j][c] = cleanHeader

\* a variant of getMasterKey in which the last matching field wins
lastMatchKey(rawHeader) ==
  LET cleanHeader == trim(toLowerCase(rawHeader))
      hits == {j \in 1..Len(mapping) : someCandidate(j, cleanHeader)}
  IN  IF hits = {}
      THEN rawHeader
      ELSE mapping[CHOOSE j \in hits : \A l \in hits : j >= l].master

\* a variant of getMasterKey that returns the cleaned header when no alias
\* matches
cleanPassKey(rawHeader) ==
  LET cleanHeader == trim(toLowerCase(rawHeader))
      hits == {j \in 1..Len(mapping) : someCandidate(j, cleanHeader)}
  IN  IF hits = {}
      THEN cleanHeader
      ELSE mapping[CHOOSE j \in hits : \A l \in hits : j <= l].master

\* a variant of getMasterKey that returns the master of the field after the
\* matching one
nextFieldKey(rawHeader) ==
  LET cleanHeader == trim(toLowerCase(rawHeader))
      hits == {j \in 1..Len(mapping) : someCandidate(j, cleanHeader)}
  IN  IF hits = {}
      THEN rawHeader
      ELSE mapping[((CHOOSE j \in hits : \A l \in hits : j <= l) % Len(mapping)) + 1].master

\* getMasterKey (lines 257-265): the first field of the table one of whose
\* aliases equals the lower-cased, trimmed header; the header itself if none
getMasterKey(rawHeader) ==
  LET cleanHeader == trim(toLowerCase(rawHeader))
      hits == {j \in 1..Len(mapping) : someCandidate(j, cleanHeader)}
  IN  IF hits = {}
      THEN rawHeader
      ELSE mapping[CHOOSE j \in hits : \A l \in hits : j <= l].master

\* the headers of the rows the model feeds
RawHeaders == UNION {{row[e].k : e \in 1..Len(row)} : row \in RawRecords}

\* getMasterKey of each of these headers, computed once
masterKeys == {<<header, getMasterKey(header)>> : header \in RawHeaders}

\* getMasterKey(header), looked up where it was computed already
masterKeyOf(header) ==
  IF header \in RawHeaders
  THEN (CHOOSE pair \in masterKeys : pair[1] = header)[2]
  ELSE getMasterKey(header)

\* a variant of line 282 that keeps the value a master key holds already
keepFirst(mappedRow, master, value) ==
  IF Has(mappedRow, master) THEN mappedRow ELSE Set(mappedRow, master, value)

\* mappedRow[masterKey] = row[header] (line 282)
assignMapped(mappedRow, master, value) == Set(mappedRow, master, value)

RECURSIVE mapHeaders(_, _, _)
\* Object.keys(row).forEach(header => mappedRow[getMasterKey(header)] =
\* row[header]) (lines 280-283), from the j-th header on
mapHeaders(row, j, mappedRow) ==
  IF j > Len(row)
  THEN mappedRow
  ELSE mapHeaders(row, j + 1,
                  assignMapped(mappedRow, masterKeyOf(row[j].k), row[j].v))

\* the new row under master keys (lines 279-283)
mapRow(row) == mapHeaders(row, 1, <<>>)

\* String(mpnValue).trim().toUpperCase() (line 292)
keyOf(mpnValue) == toUpperCase(trim(String(mpnValue)))

(***************************************************************************)
(* The merge engine of normalizeData (lines 274-316).  Its locals are the  *)
(* record m = [heap, uniqueMap, nonMpnRows]: uniqueMap is the Map, a       *)
(* sequence of [key, ref] entries in insertion order, and nonMpnRows the   *)
(* array of the rows without an MPN value; both hold addresses.            *)
(***************************************************************************)
hasKey(uniqueMap, key) == \E p \in 1..Len(uniqueMap) : uniqueMap[p].key = key

\* uniqueMap.get(key) (line 297), as the entry's position
entryOf(uniqueMap, key) == CHOOSE p \in 1..Len(uniqueMap) : uniqueMap[p].key = key

\* a variant of the condition of line 299 that does not look at the resident
fillAlways(existingValue, mappedValue) ==
  mappedValue # undefined /\ mappedValue # EmptyString

\* a variant of the condition of line 299 that fills absent fields only
fillAbsentOnly(existingValue, mappedValue) ==
  /\ existingValue = undefined
  /\ (mappedValue # undefined /\ mappedValue # EmptyString)

\* the condition of line 299: the resident field is blank and the incoming
\* one is not
shouldFill(existingValue, mappedValue) ==
  /\ (existingValue = undefined \/ existingValue = EmptyString)
  /\ (mappedValue # undefined /\ mappedValue # EmptyString)

RECURSIVE fillFrom(_, _, _)
\* Object.keys(mappedRow).forEach(k => ...) (lines 298-302), from the j-th key
fillFrom(existing, mappedRow, j) ==
  IF j > Len(mappedRow)
  THEN existing
  ELSE LET k == mappedRow[j].k
       IN  fillFrom(IF shouldFill(Get(existing, k), Get(mappedRow, k))
                    THEN Set(existing, k, Get(mappedRow, k))
                    ELSE existing,
                    mappedRow, j + 1)

\* the merge of an incoming row into the resident one (lines 297-302)
mergeFill(existing, mappedRow) == fillFrom(existing, mappedRow, 1)

\* !mpnValue (line 287)
hasNoMpn(mappedRow) == Falsy(Get(mappedRow, MPN))

\* a variant of line 295 that registers the row of the input itself
registeredInput(rowRef, mappedRef) == rowRef

\* the object uniqueMap.set registers (line 295): the new mapped row, not
\* the row of the input
registeredRow(rowRef, mappedRef) == mappedRef

\* nonMpnRows.push(mappedRow) (line 288)
pushNonMpn(m, mappedRow) ==
  [m EXCEPT !.heap = Append(m.heap, mappedRow),
            !.nonMpnRows = Append(m.nonMpnRows, Len(m.heap) + 1)]

\* uniqueMap.set(key, mappedRow) (line 295)
setUnique(m, key, rowRef, mappedRow) ==
  [m EXCEPT !.heap = Append(m.heap, mappedRow),
            !.uniqueMap = Append(m.uniqueMap,
                                 [key |-> key,
                                  ref |-> registeredRow(rowRef, Len(m.heap) + 1)])]

\* the else branch (lines 297-302): the resident object is changed in place
mergeExisting(m, key, mappedRow) ==
  LET existing == m.uniqueMap[entryOf(m.uniqueMap, key)].ref
  IN  [m EXCEPT !.heap[existing] = mergeFill(m.heap[existing], mappedRow)]

\* one call of the callback of data.forEach (lines 277-304), on the row at
\* address rowRef
forEachRow(m, rowRef) ==
  LET mappedRow == mapRow(m.heap[rowRef])
      key == keyOf(Get(mappedRow, MPN))
  IN  IF hasNoMpn(mappedRow)
      THEN pushNonMpn(m, mappedRow)
      ELSE IF ~hasKey(m.uniqueMap, key)
           THEN setUnique(m, key, rowRef, mappedRow)
           ELSE mergeExisting(m, key, mappedRow)

\* [...Array.from(uniqueMap.values()), ...nonMpnRows] (line 306)
normalizedOf(m) == [p \in 1..Len(m.uniqueMap) |-> m.uniqueMap[p].ref] \o m.nonMpnRows

\* the value normalizeData returns after the loop (lines 308-316)
returnValue(m, length) ==
  LET normalized == normalizedOf(m)
  IN  [normalized |-> normalized,
       mpnHeader  |-> Str(MPN),
       stats      |-> [merged   |-> length - Len(normalized),
                       total    |-> Len(normalized),
                       original |-> length]]

\* the value normalizeData returns for an empty array (line 239)
emptyReturn == [normalized |-> <<>>, mpnHeader |-> null, stats |-> undefined]

\* const uniqueMap = new Map(); const nonMpnRows = [] (lines 274-275)
newLocals(h) == [heap |-> h, uniqueMap |-> <<>>, nonMpnRows |-> <<>>]

RECURSIVE forEach(_, _, _)
\* data.forEach(...) from the j-th element on
forEach(m, d, j) ==
  IF j > Len(d) THEN m ELSE forEach(forEachRow(m, d[j]), d, j + 1)

\* the objects at the addresses refs
deref(h, refs) == [j \in 1..Len(refs) |-> h[refs[j]]]

\* normalizeData(rows) as one synchronous call, its result by value
normalizeData(rows) ==
  IF Len(rows) = 0
  THEN emptyReturn
  ELSE LET m == forEach(newLocals(rows), [j \in 1..Len(rows) |-> j], 1)
           r == returnValue(m, Len(rows))
       IN  [r EXCEPT !.normalized = deref(m.heap, r.normalized)]

(***************************************************************************)
(* generateCondensedData (lines 139-160).                                  *)
(***************************************************************************)
importantMap ==
  <<
    \* 'Manufacturer': 'Manufacturer'
    [masterKey |-> <<"M","a","n","u","f","a","c","t","u","r","e","r">>,
     displayName |-> <<"M","a","n","u","f","a","c","t","u","r","e","r">>],
    \* 'MPN': 'MPN'
    [masterKey |-> <<"M","P","N">>,
     displayName |-> <<"M","P","N">>],
    \* 'Min/Mult (MOQ)': 'Min / Mult (MOQ)'
    [masterKey |-> <<"M","i","n","/","M","u","l","t"," ","(","M","O","Q",")">>,
     displayName |-> <<"M","i","n"," ","/"," ","M","u","l","t"," ","(","M","O","Q",")">>],
    \* 'Unit Price': 'Unit Price'
    [masterKey |-> <<"U","n","i","t"," ","P","r","i","c","e">>,
     displayName |-> <<"U","n","i","t"," ","P","r","i","c","e">>],
    \* 'Stock Status': 'Stock Status'
    [masterKey |-> <<"S","t","o","c","k"," ","S","t","a","t","u","s">>,
     displayName |-> <<"S","t","o","c","k"," ","S","t","a","t","u","s">>],
    \* 'Quantity Avail.': 'Quantity Avail.'
    [masterKey |-> <<"Q","u","a","n","t","i","t","y"," ","A","v","a","i","l",".">>,
     displayName |-> <<"Q","u","a","n","t","i","t","y"," ","A","v","a","i","l",".">>],
    \* 'Description': 'Description'
    [masterKey |-> <<"D","e","s","c","r","i","p","t","i","o","n">>,
     displayName |-> <<"D","e","s","c","r","i","p","t","i","o","n">>],
    \* 'Datasheet': 'Datasheet'
    [masterKey |-> <<"D","a","t","a","s","h","e","e","t">>,
     displayName |-> <<"D","a","t","a","s","h","e","e","t">>],
    \* 'Product Link': 'Product Link'
    [masterKey |-> <<"P","r","o","d","u","c","t"," ","L","i","n","k">>,
     displayName |-> <<"P","r","o","d","u","c","t"," ","L","i","n","k">>]
  >>

\* value || "" (line 156)
OrEmpty(value) == IF Falsy(value) THEN EmptyString ELSE value

RECURSIVE newRowFrom(_, _, _)
\* Object.entries(importantMap).forEach(...) (lines 155-157), from the j-th
newRowFrom(row, j, newRow) ==
  IF j > Len(importantMap)
  THEN newRow
  ELSE newRowFrom(row, j + 1,
                  Set(newRow, importantMap[j].displayName,
                      OrEmpty(Get(row, importantMap[j].masterKey))))

\* the callback of data.map (lines 153-159)
condenseRow(row) == newRowFrom(row, 1, <<>>)

\* generateCondensedData(data), by value
generateCondensedData(rows) == [j \in 1..Len(rows) |-> condenseRow(rows[j])]

\* the input arrays: every sequence of at most MaxRecords of these rows
Inputs == UNION {[1..n -> RawRecords] : n \in 0..MaxRecords}

(***************************************************************************)
(* State.                                                                  *)
(***************************************************************************)
VARIABLES
  heap,           \* the objects, by address
  data,           \* the argument of normalizeData: the addresses of its rows
  given,          \* the rows as they were when the first call began
  uniqueMap,      \* normalizeData's Map, [key, ref] in insertion order
  nonMpnRows,     \* normalizeData's array of rows without an MPN value
  idx,            \* the position data.forEach has reached
  pc,             \* where the caller of normalizeData stands
  ret,            \* what normalizeData returned
  condensedData,  \* what generateCondensedData returned
  prev,           \* the results of the first of two calls, by value
  files,            \* the page's file list (line 23)
  isProcessing,     \* the page's processing flag (line 24)
  detectedHeaders,  \* the page's set of headers seen (line 25)
  processBtn,       \* processBtn.disabled
  condensedBtn,     \* condensedBtn.disabled
  headersBtn,       \* headersBtn.disabled
  statusMessage,    \* statusMessage.textContent
  runs,             \* the calls of processFiles and exportAllHeaders that
                    \* wait for a file to be read, a bag
  lastRun,          \* what the call that last reached its finally block did
  askedHeader,      \* the argument of a call of getMasterKey on its own
  gotMaster,        \* what that call returned
  gotAgain          \* what getMasterKey returned for the result of that call

engine ==
  <<heap, data, given, uniqueMap, nonMpnRows, idx, pc, ret, condensedData, prev>>

page ==
  <<files, isProcessing, detectedHeaders, processBtn, condensedBtn, headersBtn,
    statusMessage, runs, lastRun>>

canonicalizer == <<askedHeader, gotMaster, gotAgain>>

vars == <<engine, page, canonicalizer>>

locals == [heap |-> heap, uniqueMap |-> uniqueMap, nonMpnRows |-> nonMpnRows]

Init ==
  /\ given \in Inputs
  /\ heap = given
  /\ data = [j \in 1..Len(given) |-> j]
  /\ uniqueMap = <<>>
  /\ nonMpnRows = <<>>
  /\ idx = 0
  /\ pc = "call"
  /\ ret = undefined
  /\ condensedData = undefined
  /\ prev = undefined
  /\ files = <<>>
  /\ isProcessing = FALSE
  /\ detectedHeaders = {}
  /\ processBtn = TRUE
  /\ condensedBtn = TRUE
  /\ headersBtn = TRUE
  /\ statusMessage = "Ready"
  /\ runs = EmptyBag
  /\ lastRun = undefined
  /\ askedHeader = <<>>
  /\ gotMaster = undefined
  /\ gotAgain = undefined

(***************************************************************************)
(* normalizeData, one step per row.                                        *)
(***************************************************************************)
\* line 239: an empty array returns at once
ReturnEmpty ==
  /\ pc = "call"
  /\ Len(data) = 0
  /\ ret' = emptyReturn
  /\ pc' = "returned"
  /\ UNCHANGED <<page, canonicalizer, heap, data, given, uniqueMap, nonMpnRows, idx, condensedData, prev>>

\* lines 274-277: the locals are created and the loop begins
BeginForEach ==
  /\ pc = "call"
  /\ Len(data) # 0
  /\ uniqueMap' = newLocals(heap).uniqueMap
  /\ nonMpnRows' = newLocals(heap).nonMpnRows
  /\ idx' = 1
  /\ pc' = "forEach"
  /\ UNCHANGED <<page, canonicalizer, heap, data, given, ret, condensedData, prev>>

\* the locals after the callback has run on the row data[idx]
afterRow == forEachRow(locals, data[idx])

\* the row the callback is about to map
atRow == pc = "forEach" /\ idx <= Len(data)

mappedRowAt == mapRow(heap[data[idx]])

StepRow ==
  /\ LET m == afterRow
     IN  /\ heap' = m.heap
         /\ uniqueMap' = m.uniqueMap
         /\ nonMpnRows' = m.nonMpnRows
  /\ idx' = idx + 1
  /\ UNCHANGED <<page, canonicalizer, data, given, pc, ret, condensedData, prev>>

\* lines 287-290: a row without an MPN value goes to nonMpnRows
PushNonMpn ==
  /\ atRow
  /\ hasNoMpn(mappedRowAt)
  /\ StepRow

\* lines 294-295: the first row of a key becomes its resident
SetUnique ==
  /\ atRow
  /\ ~hasNoMpn(mappedRowAt)
  /\ ~hasKey(uniqueMap, keyOf(Get(mappedRowAt, MPN)))
  /\ StepRow

\* lines 296-303: a later row of a key is merged into the resident
MergeExisting ==
  /\ atRow
  /\ ~hasNoMpn(mappedRowAt)
  /\ hasKey(uniqueMap, keyOf(Get(mappedRowAt, MPN)))
  /\ StepRow

\* lines 306-316: the loop is over, the result is built
Return ==
  /\ pc = "forEach"
  /\ idx > Len(data)
  /\ ret' = returnValue(locals, Len(data))
  /\ pc' = "returned"
  /\ UNCHANGED <<page, canonicalizer, heap, data, given, uniqueMap, nonMpnRows, idx, condensedData, prev>>

\* the rows generateCondensedData builds, one per row of its argument
newRows(h, refs) == [j \in 1..Len(refs) |-> condenseRow(h[refs[j]])]

\* line 120: generateCondensedData on the normalized rows; the rows it
\* returns are new objects
Condense ==
  /\ pc = "returned"
  /\ heap' = heap \o newRows(heap, ret.normalized)
  /\ condensedData' = [j \in 1..Len(ret.normalized) |-> Len(heap) + j]
  /\ pc' = "condensed"
  /\ UNCHANGED <<page, canonicalizer, data, given, uniqueMap, nonMpnRows, idx, ret, prev>>

\* what a caller holds after both functions returned, by value
outputs ==
  [normalized |-> deref(heap, ret.normalized),
   mpnHeader  |-> ret.mpnHeader,
   stats      |-> ret.stats,
   condensed  |-> deref(heap, condensedData)]

\* the same array is handed to normalizeData a second time; the objects the
\* first call made are dropped
CallAgain ==
  /\ pc = "condensed"
  /\ prev = undefined
  /\ prev' = outputs
  /\ heap' = SubSeq(heap, 1, Len(data))
  /\ pc' = "call"
  /\ ret' = undefined
  /\ condensedData' = undefined
  /\ UNCHANGED <<page, canonicalizer, data, given, uniqueMap, nonMpnRows, idx>>

Next ==
  \/ ReturnEmpty
  \/ BeginForEach
  \/ PushNonMpn
  \/ SetUnique
  \/ MergeExisting
  \/ Return
  \/ Condense
  \/ CallAgain

Spec == Init /\ [][Next]_vars

(***************************************************************************)
(* The page: handleFiles, processFiles, exportAllHeaders and the file      *)
(* reads they wait for.                                                    *)
(***************************************************************************)
\* the longest file list that is enumerated
MaxFiles == 2

\* the most calls of processFiles and exportAllHeaders in flight at once
MaxRuns == 2

EndsWith(s, suffix) ==
  /\ Len(s) >= Len(suffix)
  /\ SubSeq(s, Len(s) - Len(suffix) + 1, Len(s)) = suffix

\* file.name.match(/\.(xlsx|xls|csv)$/i) (line 55)
validName(name) ==
  \/ EndsWith(toLowerCase(name), <<".","x","l","s","x">>)
  \/ EndsWith(toLowerCase(name), <<".","x","l","s">>)
  \/ EndsWith(toLowerCase(name), <<".","c","s","v">>)

\* a file: its name, and what readFile resolves with when the read succeeds
\* (lines 217-228): the rows of the first sheet and the cells of its first row
File(name, rows, headers) == [name |-> name, data |-> rows, headers |-> headers]

\* a.XLSX: two rows
FileA == File(<<"a",".","X","L","S","X">>, <<RowX1Acme, RowX1Price>>, Keys(RowX1Acme))

\* b.xls: one row
FileB == File(<<"b",".","x","l","s">>, <<RowX1Bolt>>, Keys(RowX1Bolt))

\* e.csv: a sheet without any row
FileE == File(<<"e",".","c","s","v">>, <<>>, <<>>)

\* n.txt: not a spreadsheet
FileN == File(<<"n",".","t","x","t">>, <<>>, <<>>)

\* the file lists a drop or a selection hands to handleFiles
NewFiles == {<<FileA, FileN, FileB>>, <<FileE>>, <<FileN>>}

RECURSIVE filterValid(_)
\* Array.from(newFiles).filter(...) (lines 54-56)
filterValid(newFiles) ==
  IF newFiles = <<>>
  THEN <<>>
  ELSE (IF validName(Head(newFiles).name) THEN <<Head(newFiles)>> ELSE <<>>)
         \o filterValid(Tail(newFiles))

\* the buttons are disabled by the page's markup, which main.js does not set
InitUI ==
  /\ given = <<>>
  /\ heap = <<>>
  /\ data = <<>>
  /\ uniqueMap = <<>>
  /\ nonMpnRows = <<>>
  /\ idx = 0
  /\ pc = "page"
  /\ ret = undefined
  /\ condensedData = undefined
  /\ prev = undefined
  /\ files = <<>>
  /\ isProcessing = FALSE
  /\ detectedHeaders = {}
  /\ processBtn \in BOOLEAN
  /\ condensedBtn \in BOOLEAN
  /\ headersBtn \in BOOLEAN
  /\ statusMessage = ""
  /\ runs = EmptyBag
  /\ lastRun = undefined
  /\ askedHeader = <<>>
  /\ gotMaster = undefined
  /\ gotAgain = undefined

\* handleFiles while isProcessing (line 52): nothing happens
HandleFilesIgnored ==
  /\ isProcessing
  /\ \E newFiles \in NewFiles : TRUE
  /\ UNCHANGED vars

\* handleFiles with no valid file (lines 58-62)
HandleFilesInvalid ==
  /\ ~isProcessing
  /\ \E newFiles \in NewFiles :
       /\ filterValid(newFiles) = <<>>
       /\ statusMessage' = "Please upload a valid Excel or CSV file."
  /\ UNCHANGED <<engine, canonicalizer, files, isProcessing, detectedHeaders, processBtn,
                 condensedBtn, headersBtn, runs, lastRun>>

\* handleFiles with valid files (lines 64-66), with updateFileList (lines
\* 81-83) and updateStatus
HandleFilesAdd ==
  /\ ~isProcessing
  /\ \E newFiles \in NewFiles :
       /\ filterValid(newFiles) # <<>>
       /\ Len(files) + Len(filterValid(newFiles)) <= MaxFiles
       /\ files' = files \o filterValid(newFiles)
  /\ processBtn' = (Len(files') = 0)
  /\ condensedBtn' = (Len(files') = 0)
  /\ headersBtn' = (Len(files') = 0)
  /\ statusMessage' = "Ready"
  /\ UNCHANGED <<engine, canonicalizer, isProcessing, detectedHeaders, runs, lastRun>>

\* a call that waits for a file: the array it iterates and the place of the
\* file it waits for.  files is only ever replaced by an array that extends
\* it (line 64), so the array a call iterates is the first n elements of
\* files, whatever files has become.  Each call in flight has a number of its
\* own, the lowest that is free, by which its steps are told from those of
\* the other calls
newRun(kind) ==
  [kind |-> kind, n |-> Len(files), pos |-> 1,
   id |-> CHOOSE i \in 1..MaxRuns :
            /\ \A run \in BagToSet(runs) : run.id # i
            /\ \A l \in 1..(i - 1) : \E run \in BagToSet(runs) : run.id = l]

\* the array the call iterates (lines 105, 171)
filesOf(run) == SubSeq(files, 1, run.n)

isProcessRun(run) == run.kind \in {"master", "condensed"}

RECURSIVE concatBackwards(_)
\* a variant of line 107 that puts the rows of a later file first
concatBackwards(list) ==
  IF list = <<>> THEN <<>> ELSE concatBackwards(Tail(list)) \o Head(list).data

RECURSIVE concatData(_)
\* the rows of a list of files, file after file (line 107)
concatData(list) ==
  IF list = <<>> THEN <<>> ELSE Head(list).data \o concatData(Tail(list))

RECURSIVE concatHeaders(_)
\* the headers of a list of files, file after file (line 173)
concatHeaders(list) ==
  IF list = <<>> THEN <<>> ELSE Head(list).headers \o concatHeaders(Tail(list))

\* allData after the first count files of the call were read (line 107)
dataOf(run, count) == concatData(SubSeq(files, 1, count))

\* allHeaders after the first count files of the call were read (line 173)
headersOf(run, count) == concatHeaders(SubSeq(files, 1, count))

\* a click on a process button with an empty file list (line 92)
ProcessFilesNoFiles ==
  /\ ~processBtn \/ ~condensedBtn
  /\ Len(files) = 0
  /\ UNCHANGED vars

\* processFiles up to its first await (lines 94-106)
ProcessFilesStart ==
  /\ Len(files) # 0
  /\ BagCardinality(runs) < MaxRuns
  /\ \E condensed \in BOOLEAN :
       /\ IF condensed THEN ~condensedBtn ELSE ~processBtn
       /\ runs' = runs (+) SetToBag({newRun(IF condensed THEN "condensed" ELSE "master")})
       /\ statusMessage' = IF condensed THEN "Generating Condensed List..."
                                        ELSE "Processing All Data..."
  /\ isProcessing' = TRUE
  /\ processBtn' = TRUE
  /\ condensedBtn' = TRUE
  /\ headersBtn' = TRUE
  /\ detectedHeaders' = {}
  /\ UNCHANGED <<engine, canonicalizer, files, lastRun>>

\* a click on the headers button with an empty file list (line 163)
ExportHeadersNoFiles ==
  /\ ~headersBtn
  /\ Len(files) = 0
  /\ UNCHANGED vars

\* exportAllHeaders up to its first await (lines 165-172)
ExportHeadersStart ==
  /\ ~headersBtn
  /\ Len(files) # 0
  /\ BagCardinality(runs) < MaxRuns
  /\ isProcessing' = TRUE
  /\ headersBtn' = TRUE
  /\ statusMessage' = "Extracting headers..."
  /\ runs' = runs (+) SetToBag({newRun("headers")})
  /\ UNCHANGED <<engine, canonicalizer, files, detectedHeaders, processBtn, condensedBtn, lastRun>>

SetOf(seq) == {seq[j] : j \in 1..Len(seq)}

\* the calls in flight
inFlight == BagToSet(runs)

\* the calls in flight without the call run
without(run) == runs (-) SetToBag({run})

\* headers.forEach(h => detectedHeaders.add(h)) (line 108)
afterReadHeaders(run) ==
  IF isProcessRun(run)
  THEN detectedHeaders \cup SetOf(files[run.pos].headers)
  ELSE detectedHeaders

\* a variant of the finally block of processFiles that leaves the headers
\* button as it is
finallyWithoutHeadersBtn ==
  /\ isProcessing' = FALSE
  /\ processBtn' = FALSE
  /\ condensedBtn' = FALSE
  /\ UNCHANGED headersBtn

\* the finally block of processFiles (lines 131-136)
ProcessFilesFinally ==
  /\ isProcessing' = FALSE
  /\ processBtn' = FALSE
  /\ condensedBtn' = FALSE
  /\ headersBtn' = FALSE

\* the finally block of exportAllHeaders (lines 200-203)
ExportHeadersFinally ==
  /\ isProcessing' = FALSE
  /\ headersBtn' = FALSE
  /\ UNCHANGED <<processBtn, condensedBtn>>

\* what a call did, noted when it reaches its finally block: its kind, the
\* array it iterated (the first n elements of files), whether its last read
\* rejected, the prefix of the download it offered through exportFile or
\* the headers link ("" when it offered none), the array it handed to
\* normalizeData and the array it handed to exportFile (undefined when it
\* did not call them)
summary(run, failed, download, allData, exported) ==
  [kind |-> run.kind, n |-> run.n, failed |-> failed, download |-> download,
   allData |-> allData, exported |-> exported]

\* a read resolves and the loop goes on to the next file (lines 105-109,
\* 171-174)
ReadNextOf(run) ==
  /\ run.pos < run.n
  /\ runs' = without(run) (+) SetToBag({[run EXCEPT !.pos = run.pos + 1]})
  /\ detectedHeaders' = afterReadHeaders(run)
  /\ UNCHANGED <<engine, canonicalizer, files, isProcessing, processBtn, condensedBtn,
                 headersBtn, statusMessage, lastRun>>

ReadNext == \E run \in inFlight : ReadNextOf(run)

\* a read rejects (lines 229-233): the catch block reports it and the finally
\* block runs
ReadFailedOf(run) ==
  /\ runs' = without(run)
  /\ lastRun' = summary(run, TRUE, "", undefined, undefined)
  /\ IF isProcessRun(run)
     THEN /\ statusMessage' = "Error: the file could not be read"
          /\ ProcessFilesFinally
     ELSE /\ statusMessage' = "Header Error: the file could not be read"
          /\ ExportHeadersFinally
  /\ UNCHANGED <<engine, canonicalizer, files, detectedHeaders>>

ReadFailed == \E run \in inFlight : ReadFailedOf(run)

\* a variant of the test of line 115 that never finds the output empty
neverNoData(normalized) == FALSE

\* normalized.length === 0 (line 115)
noData(normalized) == Len(normalized) = 0

\* the last read of processFiles resolves and normalizeData returns no row
\* (lines 112-117, 128-136)
ProcessFilesNoDataOf(run) ==
  LET result == normalizeData(dataOf(run, run.n))
  IN  /\ isProcessRun(run)
      /\ run.pos = run.n
      /\ noData(result.normalized)
      /\ runs' = without(run)
      /\ detectedHeaders' = afterReadHeaders(run)
      /\ statusMessage' = "Error: No data found to process."
      /\ lastRun' = summary(run, FALSE, "", dataOf(run, run.n), undefined)
      /\ ProcessFilesFinally
      /\ UNCHANGED <<engine, canonicalizer, files>>

ProcessFilesNoData == \E run \in inFlight : ProcessFilesNoDataOf(run)

\* the last read of processFiles resolves and the rows are exported (lines
\* 112-126, 131-136)
ProcessFilesExportOf(run) ==
  LET result == normalizeData(dataOf(run, run.n))
  IN  /\ isProcessRun(run)
      /\ run.pos = run.n
      /\ ~noData(result.normalized)
      /\ runs' = without(run)
      /\ detectedHeaders' = afterReadHeaders(run)
      /\ IF run.kind = "condensed"
         THEN /\ lastRun' = summary(run, FALSE, "condensed_list",
                                     dataOf(run, run.n),
                                     generateCondensedData(result.normalized))
              /\ statusMessage' = "Success! Exported items with important columns only."
         ELSE /\ lastRun' = summary(run, FALSE, "master_list",
                                     dataOf(run, run.n), result.normalized)
              /\ statusMessage' = "Done! Saved items."
      /\ ProcessFilesFinally
      /\ UNCHANGED <<engine, canonicalizer, files>>

ProcessFilesExport == \E run \in inFlight : ProcessFilesExportOf(run)

\* the last read of exportAllHeaders resolves and there is no header (lines
\* 176-178, 197-203)
ExportHeadersNoneOf(run) ==
  /\ ~isProcessRun(run)
  /\ run.pos = run.n
  /\ Len(headersOf(run, run.n)) = 0
  /\ runs' = without(run)
  /\ statusMessage' = "Header Error: No headers found in selected files."
  /\ lastRun' = summary(run, FALSE, "", undefined, undefined)
  /\ ExportHeadersFinally
  /\ UNCHANGED <<engine, canonicalizer, files, detectedHeaders>>

ExportHeadersNone == \E run \in inFlight : ExportHeadersNoneOf(run)

\* the last read of exportAllHeaders resolves and the headers are exported
\* (lines 180-196, 200-203)
ExportHeadersDoneOf(run) ==
  /\ ~isProcessRun(run)
  /\ run.pos = run.n
  /\ Len(headersOf(run, run.n)) # 0
  /\ runs' = without(run)
  /\ statusMessage' = "Exported total headers to TXT."
  /\ lastRun' = summary(run, FALSE, "exported_headers", undefined, undefined)
  /\ ExportHeadersFinally
  /\ UNCHANGED <<engine, canonicalizer, files, detectedHeaders>>

ExportHeadersDone == \E run \in inFlight : ExportHeadersDoneOf(run)

NextUI ==
  \/ HandleFilesIgnored
  \/ HandleFilesInvalid
  \/ HandleFilesAdd
  \/ ProcessFilesNoFiles
  \/ ProcessFilesStart
  \/ ExportHeadersNoFiles
  \/ ExportHeadersStart
  \/ ReadNext
  \/ ReadFailed
  \/ ProcessFilesNoData
  \/ ProcessFilesExport
  \/ ExportHeadersNone
  \/ ExportHeadersDone

SpecUI == InitUI /\ [][NextUI]_vars

\* the read the call with this number waits for settles: readFile resolves
\* (line 228) or rejects (lines 230, 233), and the call goes on to its next
\* await or to its end
Settle(id) ==
  \E run \in inFlight :
    /\ run.id = id
    /\ \/ ReadNextOf(run)
       \/ ReadFailedOf(run)
       \/ ProcessFilesNoDataOf(run)
       \/ ProcessFilesExportOf(run)
       \/ ExportHeadersNoneOf(run)
       \/ ExportHeadersDoneOf(run)

\* the page when every read that was begun settles
SpecUISettling == SpecUI /\ \A id \in 1..MaxRuns : WF_vars(Settle(id))

(***************************************************************************)
(* getMasterKey on its own (lines 257-265): called on a header, and once   *)
(* more on what it returned, as when a row that is under master keys       *)
(* already is mapped again (line 281).                                     *)
(***************************************************************************)
\* the most spaces put before and after a header
MaxPad == 2

\* every alias of the table
allCandidates ==
  UNION {{mapping[j].candidates[c] : c \in 1..Len(mapping[j].candidates)} :
           j \in 1..Len(mapping)}

\* the twelve master keys
allMasters == {mapping[j].master : j \in 1..Len(mapping)}

\* headers that are close to an alias and are none: "", "Price", "Mfr",
\* "Quantity Avail", "MPN#"
otherHeaders ==
  {<<>>,
   <<"P","r","i","c","e">>,
   <<"M","f","r">>,
   <<"Q","u","a","n","t","i","t","y"," ","A","v","a","i","l">>,
   <<"M","P","N","#">>}

\* these strings as they are, in lower case and in upper case
cased ==
  UNION {{s, toLowerCase(s), toUpperCase(s)} :
           s \in allCandidates \cup allMasters \cup otherHeaders}

spaces(n) == [i \in 1..n |-> " "]

\* the headers getMasterKey is called on: each with up to MaxPad spaces
\* before and after it, and one between a tab and a line feed
Headers ==
  {spaces(l) \o s \o spaces(r) : l \in 0..MaxPad, r \in 0..MaxPad, s \in cased}
    \cup {<<"\t">> \o s \o <<"\n">> : s \in allCandidates}

InitKeys ==
  /\ askedHeader \in Headers
  /\ gotMaster = undefined
  /\ gotAgain = undefined
  /\ pc = "header"
  /\ given = <<>>
  /\ heap = <<>>
  /\ data = <<>>
  /\ uniqueMap = <<>>
  /\ nonMpnRows = <<>>
  /\ idx = 0
  /\ ret = undefined
  /\ condensedData = undefined
  /\ prev = undefined
  /\ files = <<>>
  /\ isProcessing = FALSE
  /\ detectedHeaders = {}
  /\ processBtn = TRUE
  /\ condensedBtn = TRUE
  /\ headersBtn = TRUE
  /\ statusMessage = ""
  /\ runs = EmptyBag
  /\ lastRun = undefined

\* getMasterKey(header) on a header of a row (line 281)
GetMasterKey ==
  /\ pc = "header"
  /\ gotMaster' = getMasterKey(askedHeader)
  /\ pc' = "master"
  /\ UNCHANGED <<page, askedHeader, gotAgain, heap, data, given, uniqueMap,
                 nonMpnRows, idx, ret, condensedData, prev>>

\* getMasterKey on the key it returned
GetMasterKeyAgain ==
  /\ pc = "master"
  /\ gotAgain' = getMasterKey(gotMaster)
  /\ pc' = "again"
  /\ UNCHANGED <<page, askedHeader, gotMaster, heap, data, given, uniqueMap,
                 nonMpnRows, idx, ret, condensedData, prev>>

NextKeys ==
  \/ GetMasterKey
  \/ GetMasterKeyAgain

SpecKeys == InitKeys /\ [][NextKeys]_vars

(***************************************************************************)
(* Vocabulary of the properties.                                           *)
(***************************************************************************)
\* the canonical record of every row the model feeds
mappedOf == [row \in RawRecords |-> mapRow(row)]

\* the canonical record of every row of the input
mappedGiven == [j \in 1..Len(given) |-> mappedOf[given[j]]]

\* a field that holds a value: neither absent nor the empty string
populated(value) == value # undefined /\ value # EmptyString

\* the identity key of a canonical record: its MPN trimmed and upper-cased
identityKey(record) == toUpperCase(trim(String(Get(record, MPN))))

\* a record has an identity when its MPN is present and its key is not empty
hasIdentity(record) == Has(record, MPN) /\ identityKey(record) # <<>>

\* an MPN that is a non-empty string of white space only
whitespaceMpn(record) ==
  /\ Get(record, MPN).t = "string"
  /\ Get(record, MPN).s # <<>>
  /\ trim(Get(record, MPN).s) = <<>>

\* the elements of a set of numbers in increasing order
Ascending(S) ==
  [p \in 1..Cardinality(S) |->
     CHOOSE j \in S : Cardinality({i \in S : i <= j}) = p]

\* every field name of every canonical record
AllFields == UNION {{mappedOf[row][e].k : e \in 1..Len(mappedOf[row])} :
                      row \in RawRecords}

\* the rows the loop has folded so far
folded ==
  CASE pc = "forEach" -> 1..(idx - 1)
    [] pc \in {"returned", "condensed"} -> 1..Len(given)
    [] OTHER -> {}

\* normalizeData is running or has returned from a non-empty array
inCall == pc \in {"forEach", "returned", "condensed"} /\ Len(given) # 0

\* the rows folded so far that the code filed under the key of entry p
contributors(p) ==
  {j \in folded : /\ ~hasNoMpn(mappedGiven[j])
                  /\ identityKey(mappedGiven[j]) = uniqueMap[p].key}

(***************************************************************************)
(* C1.  Merge-fill never overwrites a populated field: while normalizeData *)
(* runs, a field of a resident record that holds a value other than ""     *)
(* holds the same value after every step, whatever the later rows of the   *)
(* key carry, and the resident is the record the output holds at its place.*)
(***************************************************************************)
C1_NeverOverwrites ==
  [][pc = "forEach" =>
       \A p \in 1..Len(uniqueMap) :
         /\ Len(uniqueMap') >= p
         /\ uniqueMap'[p] = uniqueMap[p]
         /\ pc' = "returned" => ret'.normalized[p] = uniqueMap[p].ref
         /\ \A e \in 1..Len(heap[uniqueMap[p].ref]) :
              LET field == heap[uniqueMap[p].ref][e]
              IN  populated(field.v) =>
                    Get(heap'[uniqueMap[p].ref], field.k) = field.v]_vars

\* a later row of a resident's key carried another value for a field the
\* resident holds
C1_Witness ==
  /\ pc = "forEach"
  /\ idx > 1
  /\ ~hasNoMpn(mappedGiven[idx - 1])
  /\ \E p \in 1..Len(uniqueMap) :
       /\ uniqueMap[p].key = identityKey(mappedGiven[idx - 1])
       /\ \E e \in 1..Len(mappedGiven[idx - 1]) :
            LET incoming == mappedGiven[idx - 1][e]
                resident == Get(heap[uniqueMap[p].ref], incoming.k)
            IN  /\ populated(incoming.v)
                /\ populated(resident)
                /\ resident # incoming.v

(***************************************************************************)
(* C2.  Blank-fill: after every row folded, each field of a resident       *)
(* record holds the first value other than "" that the rows of its key     *)
(* carry for the field, in input order; it is "" or absent only when none  *)
(* of them carries one.                                                    *)
(***************************************************************************)
C2_BlankFill ==
  inCall =>
    \A p \in 1..Len(uniqueMap) : \A f \in AllFields :
      LET carriers == {j \in contributors(p) : populated(Get(mappedGiven[j], f))}
          resident == Get(heap[uniqueMap[p].ref], f)
      IN  IF carriers = {}
          THEN ~populated(resident)
          ELSE resident = Get(mappedGiven[Ascending(carriers)[1]], f)

\* a field the first row of a key left blank holds the value of a later row
C2_Witness ==
  /\ inCall
  /\ \E p \in 1..Len(uniqueMap) : \E f \in AllFields :
       /\ contributors(p) # {}
       /\ ~populated(Get(mappedGiven[Ascending(contributors(p))[1]], f))
       /\ populated(Get(heap[uniqueMap[p].ref], f))

(***************************************************************************)
(* C3.  A row whose MPN is white space only has no identity: it is never   *)
(* registered as a resident, and every such row of the input is in the     *)
(* output, unchanged, among the rows without identity.                     *)
(***************************************************************************)
C3_WhitespaceMpnHasNoIdentity ==
  inCall =>
    /\ \A p \in 1..Len(uniqueMap) : ~whitespaceMpn(heap[uniqueMap[p].ref])
    /\ Cardinality({q \in 1..Len(nonMpnRows) : whitespaceMpn(heap[nonMpnRows[q]])})
         = Cardinality({j \in folded : whitespaceMpn(mappedGiven[j])})

(***************************************************************************)
(* C4.  Conservation law: normalizeData returns statistics with            *)
(* original = total + merged, original = the number of input rows, and     *)
(* total = the number of distinct identity keys + the number of rows       *)
(* without identity.                                                       *)
(***************************************************************************)
C4_Conservation ==
  pc = "returned" =>
    /\ ret.stats # undefined
    /\ ret.stats.original = ret.stats.total + ret.stats.merged
    /\ ret.stats.original = Len(given)
    /\ ret.stats.total =
         Cardinality({identityKey(mappedGiven[j]) :
                        j \in {i \in 1..Len(given) : hasIdentity(mappedGiven[i])}})
         + Cardinality({j \in 1..Len(given) : ~hasIdentity(mappedGiven[j])})

(***************************************************************************)
(* C5.  For the empty array normalizeData returns no rows and statistics   *)
(* that are all zero.                                                      *)
(***************************************************************************)
C5_EmptyInputZeroStats ==
  (pc = "returned" /\ Len(given) = 0) =>
    /\ ret.normalized = <<>>
    /\ ret.stats = [merged |-> 0, total |-> 0, original |-> 0]

(***************************************************************************)
(* C6.  Output ordering: the output is group (a), one record per distinct  *)
(* identity key in the order of the key's first row, followed by group     *)
(* (b), the canonical records of the rows without identity in input order. *)
(***************************************************************************)
\* the rows that are the first of their identity key, in input order
firstOfKey ==
  Ascending({j \in 1..Len(given) :
               /\ hasIdentity(mappedGiven[j])
               /\ \A i \in 1..(j - 1) :
                    hasIdentity(mappedGiven[i]) =>
                      identityKey(mappedGiven[i]) # identityKey(mappedGiven[j])})

\* the rows without identity, in input order
withoutIdentity == Ascending({j \in 1..Len(given) : ~hasIdentity(mappedGiven[j])})

C6_OutputOrdering ==
  pc = "returned" =>
    LET out == deref(heap, ret.normalized)
    IN  /\ Len(out) = Len(firstOfKey) + Len(withoutIdentity)
        /\ \A p \in 1..Len(firstOfKey) :
             /\ hasIdentity(out[p])
             /\ identityKey(out[p]) = identityKey(mappedGiven[firstOfKey[p]])
        /\ \A q \in 1..Len(withoutIdentity) :
             out[Len(firstOfKey) + q] = mappedGiven[withoutIdentity[q]]

(***************************************************************************)
(* C7.  Identity-key equivalence: the rows whose MPN values are equal      *)
(* after trimming and upper-casing (and not empty) are folded into exactly *)
(* one output record, which keeps the MPN value of the first of them; the  *)
(* rows {MPN:"X1", Manufacturer:"Acme", Price:""} and {MPN:"x1",           *)
(* Manufacturer:"", Price:"1.00"} give the one record {MPN:"X1",           *)
(* Manufacturer:"Acme", Price:"1.00"} and the statistics original 2,       *)
(* total 1, merged 1.                                                      *)
(***************************************************************************)
C7_KeyEquivalence ==
  pc = "returned" =>
    LET out == deref(heap, ret.normalized)
    IN  /\ \A j \in 1..Len(given) :
             hasIdentity(mappedGiven[j]) =>
               LET same == {i \in 1..Len(given) :
                              /\ hasIdentity(mappedGiven[i])
                              /\ identityKey(mappedGiven[i]) = identityKey(mappedGiven[j])}
                   held == {p \in 1..Len(out) :
                              /\ Has(out[p], MPN)
                              /\ identityKey(out[p]) = identityKey(mappedGiven[j])}
               IN  /\ Cardinality(held) = 1
                   /\ \A p \in held :
                        Get(out[p], MPN) = Get(mappedGiven[Ascending(same)[1]], MPN)
        /\ given = <<RowX1Acme, RowX1Price>> =>
             /\ out = <<Set(RowX1Acme, <<"P","r","i","c","e">>, Str(<<"1",".","0","0">>))>>
             /\ ret.stats = [merged |-> 1, total |-> 1, original |-> 2]

(***************************************************************************)
(* C8.  Condensed projection: generateCondensedData returns one record per *)
(* record of its argument, in order; each has exactly the nine display     *)
(* columns, and a column holds the value of its canonical field when the   *)
(* record has the field, whatever the value, and "" only when it has not.  *)
(***************************************************************************)
C8_CondensedProjection ==
  pc = "condensed" =>
    /\ Len(condensedData) = Len(ret.normalized)
    /\ \A j \in 1..Len(condensedData) :
         LET row == heap[ret.normalized[j]]
             newRow == heap[condensedData[j]]
         IN  /\ Keys(newRow) = [c \in 1..Len(importantMap) |-> importantMap[c].displayName]
             /\ \A c \in 1..Len(importantMap) :
                  newRow[c].v = IF Has(row, importantMap[c].masterKey)
                                THEN Get(row, importantMap[c].masterKey)
                                ELSE EmptyString

(***************************************************************************)
(* C9.  No usable input is an explicit failure: when a call of             *)
(* processFiles has read its files (at least one) and normalizeData        *)
(* returned no row, the call exports nothing and leaves the status         *)
(* "Error: No data found to process.".                                     *)
(***************************************************************************)
\* normalizeData returns no row for these rows
noRows(rows) == normalizeData(rows).normalized = <<>>

C9_NoDataIsFailure ==
  [][(/\ BagCardinality(runs') < BagCardinality(runs)
      /\ isProcessRun(lastRun')
      /\ ~lastRun'.failed
      /\ noRows(dataOf(lastRun', lastRun'.n)))
       => /\ lastRun'.n >= 1
          /\ lastRun'.download = ""
          /\ statusMessage' = "Error: No data found to process."]_vars

\* a call of processFiles read a file without rows and ended
C9_Witness ==
  /\ lastRun # undefined
  /\ isProcessRun(lastRun)
  /\ ~lastRun.failed
  /\ FileE \in SetOf(filesOf(lastRun))
  /\ noRows(dataOf(lastRun, lastRun.n))
  /\ statusMessage = "Error: No data found to process."

(***************************************************************************)
(* C10.  Neither function changes its input: the rows handed to            *)
(* normalizeData stay as they were, generateCondensedData leaves the       *)
(* records of its argument as they were, and a second call on the same     *)
(* array returns what the first returned.                                  *)
(***************************************************************************)
C10_InputsUnchanged ==
  /\ [](/\ \A j \in 1..Len(given) : heap[data[j]] = given[j]
        /\ (pc = "condensed" /\ prev # undefined) => outputs = prev)
  /\ [][pc = "returned" =>
          deref(heap', ret.normalized) = deref(heap, ret.normalized)]_vars

\* a row was merged into a resident and both functions returned twice
C10_Witness ==
  /\ pc = "condensed"
  /\ prev # undefined
  /\ ret.stats # undefined
  /\ ret.stats.merged >= 1
  /\ \E p \in 1..Len(uniqueMap) :
       heap[uniqueMap[p].ref] # mappedGiven[Ascending(contributors(p))[1]]

(***************************************************************************)
(* C11.  Fields present only on the incoming record are added to the       *)
(* resident: after every row folded, a resident record has every field     *)
(* name that occurs in a row of its key, also a field whose only value in  *)
(* these rows is "".                                                       *)
(***************************************************************************)
C11_IncomingFieldsAdded ==
  inCall =>
    \A p \in 1..Len(uniqueMap) : \A j \in contributors(p) :
      \A e \in 1..Len(mappedGiven[j]) :
        Has(heap[uniqueMap[p].ref], mappedGiven[j][e].k)

(***************************************************************************)
(* C12.  First-match priority: getMasterKey returns the master key of the  *)
(* first field of the table that has an alias equal to the header, both    *)
(* trimmed and in lower case; a header that folds to "availability" gives  *)
(* 'Stock Status' and one that folds to "mfr." gives 'Manufacturer'.       *)
(***************************************************************************)
\* a string trimmed and in lower case
foldedHeader(s) == trim(toLowerCase(s))

\* the fields of the table that have an alias equal to the header, folded
matching(header) ==
  {j \in 1..Len(mapping) :
     \E c \in 1..Len(mapping[j].candidates) :
       foldedHeader(mapping[j].candidates[c]) = foldedHeader(header)}

C12_FirstMatchPriority ==
  pc \in {"master", "again"} =>
    /\ \A j \in matching(askedHeader) :
         (\A l \in matching(askedHeader) : j <= l) => gotMaster = mapping[j].master
    /\ foldedHeader(askedHeader) = <<"a","v","a","i","l","a","b","i","l","i","t","y">>
         => gotMaster = <<"S","t","o","c","k"," ","S","t","a","t","u","s">>
    /\ foldedHeader(askedHeader) = <<"m","f","r",".">>
         => gotMaster = <<"M","a","n","u","f","a","c","t","u","r","e","r">>

\* getMasterKey returned for a header that is written unlike the alias and
\* matches aliases of two fields
C12_Witness ==
  /\ pc = "master"
  /\ Cardinality(matching(askedHeader)) >= 2
  /\ askedHeader \notin allCandidates

(***************************************************************************)
(* C13.  Passthrough and totality: getMasterKey returns a key for every    *)
(* header, the empty one too, and the header itself, as it was written,    *)
(* when no alias of any field matches it.                                  *)
(***************************************************************************)
C13_Passthrough ==
  pc \in {"master", "again"} =>
    /\ gotMaster \in allMasters \cup {askedHeader}
    /\ matching(askedHeader) = {} => gotMaster = askedHeader

\* getMasterKey returned for a header no alias matches that is not in lower
\* case or has spaces around it
C13_Witness ==
  /\ pc = "master"
  /\ matching(askedHeader) = {}
  /\ askedHeader # foldedHeader(askedHeader)
  /\ gotMaster = askedHeader

(***************************************************************************)
(* C14.  Collision rule of the row mapping: when two headers of a row have *)
(* the same master key, the mapped row holds under it the value of the     *)
(* later header; every other header's value is in the mapped row under the *)
(* header's master key, unchanged, and the mapped row has no other field.  *)
(***************************************************************************)
\* the headers of a row that come after the e-th and have its master key
laterSame(row, e) ==
  {i \in (e + 1)..Len(row) : masterKeyOf(row[i].k) = masterKeyOf(row[e].k)}

C14_LaterHeaderWins ==
  \A j \in folded :
    LET row == given[j]
        mappedRow == mappedGiven[j]
    IN  /\ \A e \in 1..Len(row) :
             /\ Has(mappedRow, masterKeyOf(row[e].k))
             /\ laterSame(row, e) = {}
                  => Get(mappedRow, masterKeyOf(row[e].k)) = row[e].v
        /\ \A f \in 1..Len(mappedRow) :
             \E e \in 1..Len(row) : masterKeyOf(row[e].k) = mappedRow[f].k

\* a row has been mapped that has two headers of one master key with
\* different values
C14_Witness ==
  /\ pc = "forEach"
  /\ idx > 1
  /\ \E e \in 1..Len(given[idx - 1]) : \E i \in laterSame(given[idx - 1], e) :
       /\ given[idx - 1][e].v # given[idx - 1][i].v
       /\ Get(mappedGiven[idx - 1], masterKeyOf(given[idx - 1][e].k))
            = given[idx - 1][i].v

(***************************************************************************)
(* C15.  Phase ordering in processFiles: when a call hands rows to         *)
(* normalizeData it has read every file of the array it iterates; the rows *)
(* are those of the files in the order of the array and, within a file, in *)
(* the order of the sheet, whatever else happened while the files were     *)
(* read; and what it exports is what normalizeData returned for them.      *)
(***************************************************************************)
\* the number of rows in the files before the i-th
rowsBefore(i) ==
  Cardinality(UNION {{<<k, r>> : r \in 1..Len(files[k].data)} : k \in 1..(i - 1)})

\* allData holds the rows of the first n files, file by file, row by row
inSubmissionOrder(allData, n) ==
  /\ Len(allData) = rowsBefore(n + 1)
  /\ \A i \in 1..n : \A r \in 1..Len(files[i].data) :
       allData[rowsBefore(i) + r] = files[i].data[r]

C15_PhaseOrdering ==
  [][(/\ BagCardinality(runs') < BagCardinality(runs)
      /\ isProcessRun(lastRun')
      /\ ~lastRun'.failed)
       => /\ \E run \in inFlight :
               /\ run.kind = lastRun'.kind
               /\ run.n = lastRun'.n
               /\ run.pos = run.n
          /\ inSubmissionOrder(lastRun'.allData, lastRun'.n)
          /\ lastRun'.download # "" =>
               LET normalized == normalizeData(lastRun'.allData).normalized
               IN  lastRun'.exported =
                     IF lastRun'.kind = "condensed"
                     THEN generateCondensedData(normalized)
                     ELSE normalized]_vars

\* a call of processFiles has exported the rows of two different files that
\* both have rows
C15_Witness ==
  /\ lastRun # undefined
  /\ isProcessRun(lastRun)
  /\ ~lastRun.failed
  /\ lastRun.download # ""
  /\ lastRun.n >= 2
  /\ files[1].data # <<>>
  /\ files[2].data # <<>>
  /\ files[1] # files[2]

(***************************************************************************)
(* C16.  Processing guard: whenever a call of processFiles or              *)
(* exportAllHeaders is in flight, isProcessing is true, it is the only     *)
(* call in flight, and no file has been added to the file list since it    *)
(* began.                                                                  *)
(***************************************************************************)
C16_ProcessingGuard ==
  runs # EmptyBag =>
    /\ isProcessing
    /\ BagCardinality(runs) = 1
    /\ \A run \in inFlight : run.n = Len(files)

(***************************************************************************)
(* C17.  Recovery: every call of processFiles or exportAllHeaders whose    *)
(* reads all settle reaches its finally block, whether it succeeds, a read *)
(* rejects, there are no rows or there are no headers; after the block     *)
(* isProcessing is false and every button the call disabled when it began  *)
(* is enabled.                                                             *)
(***************************************************************************)
\* the call with this number is in flight
inFlightId(id) == \E run \in inFlight : run.id = id

C17_Recovery ==
  /\ \A id \in 1..MaxRuns : inFlightId(id) ~> ~inFlightId(id)
  /\ [][BagCardinality(runs') < BagCardinality(runs) =>
          /\ ~isProcessing'
          /\ ~headersBtn'
          /\ isProcessRun(lastRun') => (~processBtn' /\ ~condensedBtn')]_vars

\* calls have ended in each way: with an export, with a read that rejected,
\* without rows and without headers; this one ended without headers
C17_Witness ==
  /\ lastRun # undefined
  /\ ~isProcessRun(lastRun)
  /\ ~lastRun.failed
  /\ lastRun.download = ""
  /\ statusMessage = "Header Error: No headers found in selected files."
  /\ ~isProcessing
  /\ ~headersBtn

(***************************************************************************)
(* C18.  Canonicalization is idempotent: getMasterKey of what getMasterKey *)
(* returned for a header is that same key, and each of the twelve master   *)
(* keys is its own master key.                                             *)
(***************************************************************************)
C18_Idempotent ==
  /\ pc = "again" => gotAgain = gotMaster
  /\ (pc \in {"master", "again"} /\ askedHeader \in allMasters)
       => gotMaster = askedHeader

\* getMasterKey renamed a header and left the new name as it is
C18_Witness ==
  /\ pc = "again"
  /\ gotMaster # askedHeader
  /\ gotMaster \in allMasters
  /\ gotMaster \notin allCandidates
  /\ gotAgain = gotMaster

=============================================================================
